---- MODULE Spec2Model ----
(***************************************************************************)
(* CuratAI: the Alation session provider (auth.py) and the catalog tools   *)
(* (tools.py), modelled as state machines.                                 *)
(*                                                                         *)
(* SpecAuth  : one AlationAuth object, its public calls, and the clock.    *)
(* SpecTools : the tool calls made through one Dependencies bundle.        *)
(***************************************************************************)
EXTENDS Integers, Sequences, FiniteSets, TLC

(* ------------------------------ bounds --------------------------------- *)

\* the clock runs over 0..MaxTime
MaxTime == 2

\* the ghost counter of completed refresh-token exchanges stops here
MaxExchanges == 3

(* --------------------------- common values ----------------------------- *)

None == "None"

Time == 0..MaxTime

(* ------------------------- auth.py: the data --------------------------- *)

REFRESH_TOKEN_URL == "/integration/v1/createRefreshToken/"

ACCESS_TOKEN_URL == "/integration/v1/createAPIAccessToken/"

\* token_expires_at is a string; what matters of it is how it is written
\*   zulu      2025-01-01T00:00:00Z        offset    2025-01-01T00:00:00+00:00
\*   naive     2025-01-01T00:00:00         malformed anything else
\* and, when it is a timestamp, the instant t it names.
Stamps ==
  [fmt : {"zulu", "offset", "naive"}, t : Time] \cup {[fmt |-> "malformed", t |-> 0]}

Tokens == {"tokA", "tokB"}

RefreshTokens == {"rtA", "rtB"}

UserIds == {"uid7"}

\* AccessTokenResponse: the fields the code reads
AccessTokenResponse ==
  [api_access_token : Tokens, user_id : UserIds, token_expires_at : Stamps]

\* access_token_obj = None, written as a record so that it compares with one
NoToken ==
  [api_access_token |-> None, user_id |-> None,
   token_expires_at |-> [fmt |-> None, t |-> 0]]

\* what the createRefreshToken endpoint can answer:
\*   http_error   4xx/5xx, raise_for_status raises
\*   ok           2xx with refresh_token and user_id, as the endpoint documents
RefreshResponses ==
  {[kind |-> "http_error", refresh_token |-> None, user_id |-> None]}
  \cup [kind : {"ok"}, refresh_token : RefreshTokens, user_id : UserIds]

\* what the createAPIAccessToken endpoint can answer:
\*   http_error    4xx/5xx, raise_for_status raises
\*   invalid_body  2xx whose body model_validate rejects
\*   ok            2xx with an AccessTokenResponse body
AccessResponses ==
  [kind : {"http_error", "invalid_body"}, body : {NoToken}]
  \cup [kind : {"ok"}, body : AccessTokenResponse]

VARIABLES
  now,          \* the wall clock datetime.now() reads
  al_auth,      \* the AlationAuth object: its attributes
  call,         \* the last call made on al_auth: arguments, requests, outcome
  exchanges     \* how many get_refresh_token calls have completed so far

auth_vars == <<now, al_auth, call, exchanges>>

VARIABLES
  pc,           \* where the current tool call is: idle, polling or done
  args,         \* the arguments of the current tool call
  http,         \* the requests the current tool call has sent through the session
  replies,      \* what the catalog answered to the lookup, update or submission of the call
  attempt,      \* propagate_custom_field: iterations of the polling loop begun
  job_id,       \* propagate_custom_field: the id of the task submitted
  job_url,      \* propagate_custom_field: the job's status URL
  job_data,     \* propagate_custom_field: the last job-status body read
  result,       \* how the current tool call ended: the text returned or the exception
  wire,         \* the TOKEN header of the last request of the call and when it was sent
  elapsed       \* propagate_custom_field: time the polling loop has taken so far

tool_vars ==
  <<pc, args, http, replies, attempt, job_id, job_url, job_data, result, wire, elapsed>>

VARIABLES
  deps,         \* the Dependencies bundle the process built at start-up
  runs          \* chat_api: the agent run of each conversation being served

chat_vars == <<deps, runs>>

vars == <<auth_vars, tool_vars, chat_vars>>

\* a requests.Session is its headers; session = None is the one without TOKEN
NoSession == [TOKEN |-> None]

\* AlationAuth.__init__
AlationAuthInit ==
  [refresh_token |-> None, user_id |-> None, access_token_obj |-> NoToken,
   session |-> NoSession]

\* what a call found cached when it began
Cached(self) ==
  [refresh_token |-> self.refresh_token, user_id |-> self.user_id,
   access_token_obj |-> self.access_token_obj]

NoCall ==
  [op |-> None, force_refresh |-> FALSE, pre |-> Cached(AlationAuthInit), at |-> 0,
   requests |-> <<>>, raised |-> None, value |-> None]

(* ---------------------- auth.py: the operations ------------------------ *)

\* str.replace("Z", "+00:00")
ReplaceZ(s) == IF s.fmt = "zulu" THEN [s EXCEPT !.fmt = "offset"] ELSE s

\* datetime.fromisoformat: ValueError on text it cannot read (a trailing Z
\* is such text before Python 3.11), else a datetime, aware iff an offset
\* was written
FromIsoFormat(s) ==
  IF s.fmt \in {"malformed", "zulu"}
  THEN [error |-> "ValueError", aware |-> FALSE, t |-> 0]
  ELSE [error |-> None, aware |-> (s.fmt = "offset"), t |-> s.t]

\* CompareGE with > for >=
CompareGE_Strict(cur, expiry) ==
  IF ~expiry.aware
  THEN [error |-> "TypeError", value |-> FALSE]
  ELSE [error |-> None, value |-> (cur > expiry.t)]

\* current_time >= expiry_time, current_time being aware: comparing it with
\* a naive datetime raises TypeError
CompareGE(cur, expiry) ==
  IF ~expiry.aware
  THEN [error |-> "TypeError", value |-> FALSE]
  ELSE [error |-> None, value |-> (cur >= expiry.t)]

\* AlationAuth._is_token_expired: [raised, value]
is_token_expired(self, cur) ==
  IF self.access_token_obj = NoToken
  THEN [raised |-> None, value |-> TRUE]
  ELSE LET expiry_time == FromIsoFormat(ReplaceZ(self.access_token_obj.token_expires_at))
           cmp == CompareGE(cur, expiry_time)
       IN  IF expiry_time.error \in {"ValueError", "AttributeError"}
           THEN [raised |-> None, value |-> TRUE]
           ELSE IF cmp.error \in {"ValueError", "AttributeError"}
           THEN [raised |-> None, value |-> TRUE]
           ELSE IF cmp.error # None
           THEN [raised |-> cmp.error, value |-> FALSE]
           ELSE [raised |-> None, value |-> cmp.value]

\* AlationAuth.get_refresh_token: [self, requests, raised]
get_refresh_token(self, resp) ==
  LET req == [url |-> REFRESH_TOKEN_URL,
              data |-> [username |-> "<username>", password |-> "<password>",
                        name |-> "<token_name>"],
              kind |-> resp.kind, body |-> NoToken]
  IN  IF resp.kind = "http_error"
      THEN [self |-> self, requests |-> <<req>>, raised |-> "HTTPError"]
      ELSE [self |-> [self EXCEPT !.refresh_token = resp.refresh_token,
                                  !.user_id = resp.user_id],
            requests |-> <<req>>, raised |-> None]

\* RefreshStep without its test of the cached refresh token
RefreshStep_Always(self, rresp) == get_refresh_token(self, rresp)

\* the refresh-token step of get_access_token (lines 85-86)
RefreshStep(self, rresp) ==
  IF self.refresh_token = None \/ self.user_id = None
  THEN get_refresh_token(self, rresp)
  ELSE [self |-> self, requests |-> <<>>, raised |-> None]

\* MintStep that drops the cached token when the endpoint refuses
MintStep_ClearsOnError(self, aresp) ==
  LET req == [url |-> ACCESS_TOKEN_URL,
              data |-> [refresh_token |-> self.refresh_token, user_id |-> self.user_id],
              kind |-> aresp.kind, body |-> aresp.body]
  IN  IF aresp.kind = "http_error"
      THEN [self |-> [self EXCEPT !.access_token_obj = NoToken],
            requests |-> <<req>>, raised |-> "HTTPError"]
      ELSE IF aresp.kind = "invalid_body"
      THEN [self |-> self, requests |-> <<req>>, raised |-> "ValidationError"]
      ELSE [self |-> [self EXCEPT !.access_token_obj = aresp.body],
            requests |-> <<req>>, raised |-> None]

\* MintStep that reads the response but keeps the token it had
MintStep_KeepsStale(self, aresp) ==
  LET req == [url |-> ACCESS_TOKEN_URL,
              data |-> [refresh_token |-> self.refresh_token, user_id |-> self.user_id],
              kind |-> aresp.kind, body |-> aresp.body]
  IN  IF aresp.kind = "http_error"
      THEN [self |-> self, requests |-> <<req>>, raised |-> "HTTPError"]
      ELSE IF aresp.kind = "invalid_body"
      THEN [self |-> self, requests |-> <<req>>, raised |-> "ValidationError"]
      ELSE [self |-> IF self.access_token_obj = NoToken
                     THEN [self EXCEPT !.access_token_obj = aresp.body]
                     ELSE self,
            requests |-> <<req>>, raised |-> None]

\* the mint step of get_access_token (lines 90-96)
MintStep(self, aresp) ==
  LET req == [url |-> ACCESS_TOKEN_URL,
              data |-> [refresh_token |-> self.refresh_token, user_id |-> self.user_id],
              kind |-> aresp.kind, body |-> aresp.body]
  IN  IF aresp.kind = "http_error"
      THEN [self |-> self, requests |-> <<req>>, raised |-> "HTTPError"]
      ELSE IF aresp.kind = "invalid_body"
      THEN [self |-> self, requests |-> <<req>>, raised |-> "ValidationError"]
      ELSE [self |-> [self EXCEPT !.access_token_obj = aresp.body],
            requests |-> <<req>>, raised |-> None]

\* AlationAuth.get_access_token: [self, requests, raised, value]
get_access_token(self, force_refresh, rresp, aresp, cur) ==
  LET r == RefreshStep(self, rresp)
      expired == IF force_refresh
                 THEN [raised |-> None, value |-> TRUE]
                 ELSE is_token_expired(r.self, cur)
      m == IF expired.value
           THEN MintStep(r.self, aresp)
           ELSE [self |-> r.self, requests |-> <<>>, raised |-> None]
  IN  IF r.raised # None
      THEN [self |-> r.self, requests |-> r.requests, raised |-> r.raised, value |-> None]
      ELSE IF expired.raised # None
      THEN [self |-> r.self, requests |-> r.requests, raised |-> expired.raised,
            value |-> None]
      ELSE IF m.raised # None
      THEN [self |-> m.self, requests |-> r.requests \o m.requests, raised |-> m.raised,
            value |-> None]
      ELSE [self |-> m.self, requests |-> r.requests \o m.requests, raised |-> None,
            value |-> m.self.access_token_obj.api_access_token]

\* AlationAuth.get_auth_headers: returns {"TOKEN": token}; value is the token
get_auth_headers(self, rresp, aresp, cur) ==
  get_access_token(self, FALSE, rresp, aresp, cur)

\* AlationAuth.get_authenticated_session: a new session with the headers of
\* get_auth_headers, kept in self.session; value is its TOKEN
get_authenticated_session(self, rresp, aresp, cur) ==
  LET r == get_auth_headers(self, rresp, aresp, cur)
  IN  IF r.raised # None THEN r ELSE [r EXCEPT !.self.session = [TOKEN |-> r.value]]

(* ------------------------ auth.py: the actions ------------------------- *)

\* number of completed get_refresh_token calls among the requests of a call
Completed(requests) ==
  Cardinality({i \in DOMAIN requests :
                 requests[i].url = REFRESH_TOKEN_URL /\ requests[i].kind = "ok"})

\* the call leaves al_auth as r says and is kept as the last call
Bookkeeping(op, force, r) ==
  /\ exchanges + Completed(r.requests) <= MaxExchanges
  /\ al_auth' = r.self
  /\ call' = [op |-> op, force_refresh |-> force, pre |-> Cached(al_auth), at |-> now,
              requests |-> r.requests, raised |-> r.raised, value |-> r.value]
  /\ exchanges' = exchanges + Completed(r.requests)
  /\ now' = now

Record(op, force, r) ==
  /\ Bookkeeping(op, force, r)
  /\ UNCHANGED <<tool_vars, chat_vars>>

\* the answers worth drawing for a request: all of them when the call sends
\* the request, one (it is never read) when it does not
Answers(S, sent) == IF sent THEN S ELSE {CHOOSE x \in S : TRUE}

Sends(r, url) == \E i \in DOMAIN r.requests : r.requests[i].url = url

AnyRefresh == CHOOSE x \in RefreshResponses : TRUE

AnyAccess == CHOOSE x \in AccessResponses : TRUE

GetAccessToken ==
  \E force \in BOOLEAN :
    \E rresp \in Answers(RefreshResponses,
                         Sends(get_access_token(al_auth, force, AnyRefresh, AnyAccess, now),
                               REFRESH_TOKEN_URL)) :
      \E aresp \in Answers(AccessResponses,
                           Sends(get_access_token(al_auth, force, rresp, AnyAccess, now),
                                 ACCESS_TOKEN_URL)) :
        Record("get_access_token", force,
               get_access_token(al_auth, force, rresp, aresp, now))

GetAuthHeaders ==
  \E rresp \in Answers(RefreshResponses,
                       Sends(get_auth_headers(al_auth, AnyRefresh, AnyAccess, now),
                             REFRESH_TOKEN_URL)) :
    \E aresp \in Answers(AccessResponses,
                         Sends(get_auth_headers(al_auth, rresp, AnyAccess, now),
                               ACCESS_TOKEN_URL)) :
      Record("get_auth_headers", FALSE, get_auth_headers(al_auth, rresp, aresp, now))

GetAuthenticatedSession ==
  \E rresp \in Answers(RefreshResponses,
                       Sends(get_authenticated_session(al_auth, AnyRefresh, AnyAccess, now),
                             REFRESH_TOKEN_URL)) :
    \E aresp \in Answers(AccessResponses,
                         Sends(get_authenticated_session(al_auth, rresp, AnyAccess, now),
                               ACCESS_TOKEN_URL)) :
      Record("get_authenticated_session", FALSE,
             get_authenticated_session(al_auth, rresp, aresp, now))

\* _is_token_expired called on its own; value is the boolean it returns
IsTokenExpired ==
  LET e == is_token_expired(al_auth, now)
  IN  Record("_is_token_expired", FALSE,
             [self |-> al_auth, requests |-> <<>>, raised |-> e.raised, value |-> e.value])

\* time passes between calls
Tick ==
  /\ now < MaxTime
  /\ now' = now + 1
  /\ UNCHANGED <<al_auth, call, exchanges>>
  /\ UNCHANGED <<tool_vars, chat_vars>>

AuthInit ==
  /\ now = 0
  /\ al_auth = AlationAuthInit
  /\ call = NoCall
  /\ exchanges = 0

AuthNext ==
  \/ GetAccessToken
  \/ GetAuthHeaders
  \/ GetAuthenticatedSession
  \/ IsTokenExpired
  \/ Tick

(* ------------------------- tools.py: the data -------------------------- *)

\* Dependencies.al_base_url
AL_BASE_URL == "https://catalog.example"

\* range(60): the polling budget of propagate_custom_field
PollAttempts == 60

\* time.sleep(1) after a poll that ends nothing
PollSleep == 1

\* timeout=5 of a job-status request
RequestTimeout == 5

\* search_data_products: the largest limit accepted
MaxLimit == 100

\* search_data_products: descriptions are cut to this many characters
DescriptionCut == 100

\* a text is a sequence of pieces; the pieces that matter are kept apart
Text(pieces) == pieces

\* str(n) for the numbers that appear in texts
Str(n) == ToString(n)

\* s appears in text as consecutive pieces
IsInfix(s, text) ==
  \E i \in 0..(Len(text) - Len(s)) : \A j \in 1..Len(s) : text[i + j] = s[j]

\* session.get(url) and session.post(url, json=json) as the log keeps them
HttpGet(url) == [method |-> "GET", url |-> url]

HttpPost(url, json) == [method |-> "POST", url |-> url, json |-> json]

\* how a call ended
Returned(text) == [kind |-> "returned", text |-> text, error |-> None]

Raised(error) == [kind |-> "raised", text |-> <<>>, error |-> error]

Running == [kind |-> None, text |-> <<>>, error |-> None]

NoArgs == [tool |-> None]

NoJobData == [kind |-> None, status |-> "", state |-> ""]

\* Dependencies before the process has built its session
NoDeps == [id |-> 0, session |-> NoSession, al_base_url |-> AL_BASE_URL]

NoWire == [TOKEN |-> None, at |-> 0]

\* a request goes out with the headers of ctx.deps.session
Wire(sent) == IF sent = <<>> THEN NoWire ELSE [TOKEN |-> deps.session.TOKEN, at |-> now]

(* ------------------ tools.py: propagate_custom_field ------------------- *)

ObjectTypes == {"table", "column"}

Operations == {"replace", "add", "remove", "purge"}

Directions == {"downstream", "upstream", "sideways"}

\* target_scope: <<>> stands for None and for the empty list
Scopes == {<<>>, <<"schema">>}

\* value: a list, or a scalar written as the one item it is
Values ==
  {[is_list |-> TRUE, items |-> <<"alice", "bob">>],
   [is_list |-> FALSE, items |-> <<"">>]}

JobIds == {"j1", "j2"}

PropagateArgs ==
  [tool : {"propagate_custom_field"}, object_type : ObjectTypes, object_id : {"42"},
   field_id : {8}, value : Values, operation : Operations, consent : BOOLEAN,
   direction : Directions, target_scope : Scopes]

\* what the propagation endpoint can answer to the submission:
\*   request_error  the request fails or the status is 4xx/5xx
\*   non_json       a body response.json() rejects
\*   no_task        JSON without "task"
\*   no_id          a task without (or with a falsy) "id"
\*   ok             a task with an id
SubmitResponses ==
  [kind : {"request_error", "non_json", "no_task", "no_id"}, id : {None}]
  \cup [kind : {"ok"}, id : JobIds]

\* a field of the job-status body: a string, absent, or JSON null
Missing == "<missing>"

Null == "<null>"

Statuses ==
  {"succeeded", "partial_success", "failed", "did_not_start", "skipped", "running",
   "SUCCEEDED", Missing, Null}

States == {"finished", "running", "Finished", Missing, Null}

\* what the job endpoint can answer to a status request:
\*   request_error  the request fails, the status is 4xx/5xx or the body is not JSON
\*   ok             a JSON object
JobResponses ==
  {[kind |-> "request_error", status |-> Missing, state |-> Missing]}
  \cup [kind : {"ok"}, status : Statuses, state : States]

\* str.lower() on the words of the model
Lower(s) ==
  CASE s = "SUCCEEDED" -> "succeeded"
    [] s = "Finished" -> "finished"
    [] s = "OPS" -> "ops"
    [] s = "GUEST_ID" -> "guest_id"
    [] s = "Sales" -> "sales"
    [] OTHER -> s

\* dict.get(key, ""): the value, "" when the key is absent, None when null
JsonGet(field) == IF field = Missing THEN "" ELSE field

Children(direction) == IF direction = "downstream" THEN "children" ELSE "parents"

ConsentText(a) ==
  Text(<<"This action will propagate the custom field update from the ", a.object_type,
         " to its ", Children(a.direction), ". ", "Please confirm your ", "consent",
         " by setting '", "consent", "=True'.">>)

InvalidOperationText == Text(<<"Invalid operation. Must be one of: add, replace, remove.">>)

InvalidDirectionText == Text(<<"Invalid direction. Must be 'downstream' or 'upstream'.">>)

SpecifyScopeText == Text(<<"Please specify 'target_scope' for this propagation.">>)

SubmitErrorText == Text(<<"Error propagating field: ", "<exception>", " - ", "<body>">>)

NonJsonText == Text(<<"Non-JSON response from server: ", "<body>">>)

UnexpectedText == Text(<<"Unexpected response: ", "<json>">>)

JobUrl(id) == <<AL_BASE_URL, "/api/job/", id, "/">>

ActionUrl == <<AL_BASE_URL, "/api/curation/assistant/v1/action/">>

PollErrorText == Text(<<"Error checking job status: ", "<exception>">>)

SuccessText(a, url) ==
  Text(<<"Propagation of field '", Str(a.field_id), "' from ", a.object_type, " '",
         a.object_id, "' to its ", Children(a.direction), " completed successfully.\n",
         "Job info: ">> \o url)

FailedText(url) == Text(<<"Propagation failed. Job info: ">> \o url)

\* TimeoutText without the job's URL
TimeoutText_NoUrl(url) ==
  Text(<<"Propagation did not complete within timeout.">>)

TimeoutText(url) ==
  Text(<<"Propagation did not complete within timeout. Check job status at: ">> \o url)

\* DefaultScope that falls back to the column scope for every call
DefaultScope_AlwaysColumns(a) ==
  IF a.target_scope # <<>> THEN a.target_scope ELSE <<"attribute">>

\* lines 451-458: the scope submitted, <<>> when none is given or defaultable
DefaultScope(a) ==
  IF a.target_scope # <<>> THEN a.target_scope
  ELSE IF a.direction = "downstream" /\ a.object_type = "table" THEN <<"attribute">>
  ELSE IF a.direction = "upstream" /\ a.object_type = "column"
  THEN <<"table", "schema", "data">>
  ELSE <<>>

\* lines 460-463
ResolvedValue(value) ==
  IF value.is_list THEN value.items
  ELSE IF value.items[1] # "" THEN value.items ELSE <<>>

\* lines 465-488
Payload(a, scope) ==
  [operand |-> a.object_type, value |-> a.object_id, direction |-> a.direction,
   scope |-> scope, field_id |-> Str(a.field_id),
   field_value |-> ResolvedValue(a.value), op |-> a.operation]

\* Submit that goes on to poll when the answer carries no task id
Submit_PollsWithoutId(a, sresp) ==
  LET scope == DefaultScope(a)
      post == <<HttpPost(ActionUrl, Payload(a, scope))>>
  IN  IF ~a.consent
      THEN [http |-> <<>>, result |-> Returned(ConsentText(a)), job_id |-> None, job_url |-> <<>>]
      ELSE IF a.operation \notin {"add", "replace", "remove"}
      THEN [http |-> <<>>, result |-> Returned(InvalidOperationText), job_id |-> None, job_url |-> <<>>]
      ELSE IF a.direction \notin {"downstream", "upstream"}
      THEN [http |-> <<>>, result |-> Returned(InvalidDirectionText), job_id |-> None, job_url |-> <<>>]
      ELSE IF scope = <<>>
      THEN [http |-> <<>>, result |-> Returned(SpecifyScopeText), job_id |-> None, job_url |-> <<>>]
      ELSE IF sresp.kind = "request_error"
      THEN [http |-> post, result |-> Returned(SubmitErrorText), job_id |-> None, job_url |-> <<>>]
      ELSE IF sresp.kind = "non_json"
      THEN [http |-> post, result |-> Returned(NonJsonText), job_id |-> None, job_url |-> <<>>]
      ELSE [http |-> post, result |-> Running, job_id |-> sresp.id,
            job_url |-> JobUrl(sresp.id)]

\* Submit without its check of the operation
Submit_AnyOperation(a, sresp) ==
  LET scope == DefaultScope(a)
      post == <<HttpPost(ActionUrl, Payload(a, scope))>>
  IN  IF ~a.consent
      THEN [http |-> <<>>, result |-> Returned(ConsentText(a)), job_id |-> None, job_url |-> <<>>]
      ELSE IF a.direction \notin {"downstream", "upstream"}
      THEN [http |-> <<>>, result |-> Returned(InvalidDirectionText), job_id |-> None, job_url |-> <<>>]
      ELSE IF scope = <<>>
      THEN [http |-> <<>>, result |-> Returned(SpecifyScopeText), job_id |-> None, job_url |-> <<>>]
      ELSE IF sresp.kind = "request_error"
      THEN [http |-> post, result |-> Returned(SubmitErrorText), job_id |-> None, job_url |-> <<>>]
      ELSE IF sresp.kind = "non_json"
      THEN [http |-> post, result |-> Returned(NonJsonText), job_id |-> None, job_url |-> <<>>]
      ELSE IF sresp.kind \in {"no_task", "no_id"}
      THEN [http |-> post, result |-> Returned(UnexpectedText), job_id |-> None, job_url |-> <<>>]
      ELSE [http |-> post, result |-> Running, job_id |-> sresp.id,
            job_url |-> JobUrl(sresp.id)]

\* Submit without its consent gate
Submit_NoGate(a, sresp) ==
  LET scope == DefaultScope(a)
      post == <<HttpPost(ActionUrl, Payload(a, scope))>>
  IN  IF a.operation \notin {"add", "replace", "remove"}
      THEN [http |-> <<>>, result |-> Returned(InvalidOperationText), job_id |-> None, job_url |-> <<>>]
      ELSE IF a.direction \notin {"downstream", "upstream"}
      THEN [http |-> <<>>, result |-> Returned(InvalidDirectionText), job_id |-> None, job_url |-> <<>>]
      ELSE IF scope = <<>>
      THEN [http |-> <<>>, result |-> Returned(SpecifyScopeText), job_id |-> None, job_url |-> <<>>]
      ELSE IF sresp.kind = "request_error"
      THEN [http |-> post, result |-> Returned(SubmitErrorText), job_id |-> None, job_url |-> <<>>]
      ELSE IF sresp.kind = "non_json"
      THEN [http |-> post, result |-> Returned(NonJsonText), job_id |-> None, job_url |-> <<>>]
      ELSE IF sresp.kind \in {"no_task", "no_id"}
      THEN [http |-> post, result |-> Returned(UnexpectedText), job_id |-> None, job_url |-> <<>>]
      ELSE [http |-> post, result |-> Running, job_id |-> sresp.id,
            job_url |-> JobUrl(sresp.id)]

\* lines 438-506: the consent gate, the validation and the submission.
\* [http, result, job_id, job_url]; result is Running when the call goes on to poll
Submit(a, sresp) ==
  LET scope == DefaultScope(a)
      post == <<HttpPost(ActionUrl, Payload(a, scope))>>
  IN  IF ~a.consent
      THEN [http |-> <<>>, result |-> Returned(ConsentText(a)), job_id |-> None, job_url |-> <<>>]
      ELSE IF a.operation \notin {"add", "replace", "remove"}
      THEN [http |-> <<>>, result |-> Returned(InvalidOperationText), job_id |-> None, job_url |-> <<>>]
      ELSE IF a.direction \notin {"downstream", "upstream"}
      THEN [http |-> <<>>, result |-> Returned(InvalidDirectionText), job_id |-> None, job_url |-> <<>>]
      ELSE IF scope = <<>>
      THEN [http |-> <<>>, result |-> Returned(SpecifyScopeText), job_id |-> None, job_url |-> <<>>]
      ELSE IF sresp.kind = "request_error"
      THEN [http |-> post, result |-> Returned(SubmitErrorText), job_id |-> None, job_url |-> <<>>]
      ELSE IF sresp.kind = "non_json"
      THEN [http |-> post, result |-> Returned(NonJsonText), job_id |-> None, job_url |-> <<>>]
      ELSE IF sresp.kind \in {"no_task", "no_id"}
      THEN [http |-> post, result |-> Returned(UnexpectedText), job_id |-> None, job_url |-> <<>>]
      ELSE [http |-> post, result |-> Running, job_id |-> sresp.id,
            job_url |-> JobUrl(sresp.id)]

\* Classify that does not count partial_success as success
Classify_NoPartial(status, state) ==
  IF status = "succeeded" /\ state = "finished" THEN "success"
  ELSE IF status \in {"failed", "did_not_start", "skipped"} THEN "failure"
  ELSE "continue"

\* Classify that waits for state finished before reporting a failure
Classify_FailureWhenFinished(status, state) ==
  IF status \in {"succeeded", "partial_success"} /\ state = "finished" THEN "success"
  ELSE IF status \in {"failed", "did_not_start", "skipped"} /\ state = "finished"
  THEN "failure"
  ELSE "continue"

\* lines 518-526: what the loop does with a lowered (status, state)
Classify(status, state) ==
  IF status \in {"succeeded", "partial_success"} /\ state = "finished" THEN "success"
  ELSE IF status \in {"failed", "did_not_start", "skipped"} THEN "failure"
  ELSE "continue"

\* a poll that posts to the propagation endpoint again
StatusRequest_Resubmits(url) == HttpPost(ActionUrl, <<>>)

\* the request of one poll
StatusRequest(url) == HttpGet(url)

\* Poll that takes a failed status request for one more pending answer
Poll_ContinuesOnError(a, url, n, jresp) ==
  LET status == JsonGet(jresp.status)
      state == JsonGet(jresp.state)
      class == Classify(Lower(status), Lower(state))
  IN  IF jresp.kind = "request_error"
      THEN IF n + 1 < PollAttempts THEN Running ELSE Returned(TimeoutText(url))
      ELSE IF status = Null \/ state = Null THEN Raised("AttributeError")
      ELSE IF class = "success" THEN Returned(SuccessText(a, url))
      ELSE IF class = "failure" THEN Returned(FailedText(url))
      ELSE IF n + 1 < PollAttempts THEN Running
      ELSE Returned(TimeoutText(url))

\* lines 509-527: one iteration of the polling loop, the (n+1)-th, and the
\* return after the loop when it was the last. [result]; Running when the
\* loop goes on
Poll(a, url, n, jresp) ==
  LET status == JsonGet(jresp.status)
      state == JsonGet(jresp.state)
      class == Classify(Lower(status), Lower(state))
  IN  IF jresp.kind = "request_error" THEN Returned(PollErrorText)
      ELSE IF status = Null \/ state = Null THEN Raised("AttributeError")
      ELSE IF class = "success" THEN Returned(SuccessText(a, url))
      ELSE IF class = "failure" THEN Returned(FailedText(url))
      ELSE IF n + 1 < PollAttempts THEN Running
      ELSE Returned(TimeoutText(url))

\* the iteration reaches time.sleep(1): nothing returned, nothing raised
Sleeps(a, url, n, jresp) ==
  Poll(a, url, n, jresp) \in {Running, Returned(TimeoutText(url))}

(* ------------------- tools.py: search_data_products -------------------- *)

SearchTerms == {"", "sal", "OPS"}

Limits == {-1, 0, 1, 100, 101, 150}

\* a data product: the fields the code reads; its description by its length
Products ==
  {[id |-> "p1", name |-> "Sales", description |-> 20, owner |-> "ann"],
   [id |-> "p2", name |-> "ops", description |-> 101, owner |-> "bo"]}

\* the most data products the catalog lists
MaxProducts == 2

ProductLists == UNION {[1..n -> Products] : n \in 0..MaxProducts}

SearchArgs == [tool : {"search_data_products"}, search_term : SearchTerms, limit : Limits]

\* what the data-product endpoint can answer: an error status or a list
SearchResponses ==
  {[kind |-> "http_error", res |-> <<>>]} \cup [kind : {"ok"}, res : ProductLists]

\* a in b, for the lowered words of the model
SubstringOf(a, b) == a = "" \/ a = b \/ <<a, b>> \in {<<"sal", "sales">>}

\* lines 61-73: one product as its lines
ProductLines(p) ==
  <<"- id: ", p.id, "\n  name: ", p.name, "\n  description: ",
    Str(IF p.description > DescriptionCut THEN DescriptionCut ELSE p.description),
    IF p.description > DescriptionCut THEN " ..." ELSE "",
    "\n  owner: ", p.owner, "\n">>

\* lines 57-60: the products whose name has the search term in it
RECURSIVE Matching(_, _)
Matching(res, term) ==
  IF res = <<>> THEN <<>>
  ELSE IF term # "" /\ ~SubstringOf(Lower(term), Lower(res[1].name))
  THEN Matching(Tail(res), term)
  ELSE <<res[1]>> \o Matching(Tail(res), term)

\* products[:limit]
Slice(products, limit) ==
  IF limit >= 0
  THEN SubSeq(products, 1, IF limit < Len(products) THEN limit ELSE Len(products))
  ELSE SubSeq(products, 1, IF Len(products) + limit > 0 THEN Len(products) + limit ELSE 0)

\* "\n".join(lines)
RECURSIVE Join(_)
Join(products) ==
  IF products = <<>> THEN <<>>
  ELSE IF Len(products) = 1 THEN ProductLines(products[1])
  ELSE ProductLines(products[1]) \o <<"\n">> \o Join(Tail(products))

SearchText(total, limit, products) ==
  Text(<<"Total Products Available: ", Str(total), "\nLimit: ", Str(limit),
         "\n--------\n\n">> \o Join(products))

SearchUrl == <<AL_BASE_URL, "/integration/data-products/v1/data-product/">>

\* search_data_products letting 101 through
search_data_products_OffByOne(a, resp) ==
  LET get == <<HttpGet(SearchUrl)>>
  IN  IF a.limit > MaxLimit + 1
      THEN [http |-> <<>>, result |-> Raised("ModelRetry")]
      ELSE IF resp.kind = "http_error"
      THEN [http |-> get, result |-> Raised("HTTPError")]
      ELSE [http |-> get,
            result |-> Returned(SearchText(Len(resp.res), a.limit,
                                           Slice(Matching(resp.res, a.search_term),
                                                 a.limit)))]

\* search_data_products: [http, result]
search_data_products(a, resp) ==
  LET get == <<HttpGet(SearchUrl)>>
  IN  IF a.limit > MaxLimit
      THEN [http |-> <<>>, result |-> Raised("ModelRetry")]
      ELSE IF resp.kind = "http_error"
      THEN [http |-> get, result |-> Raised("HTTPError")]
      ELSE [http |-> get,
            result |-> Returned(SearchText(Len(resp.res), a.limit,
                                           Slice(Matching(resp.res, a.search_term),
                                                 a.limit)))]

(* ---------------------- tools.py: get_table_info ----------------------- *)

\* the most records a catalog answer carries in the model
MaxRecords == 3

\* Python truthiness of an optional string argument: None and '' are falsy
Truthy(x) == x \notin {None, ""}

\* record.get(field, default) for a field the record may lack
GetOr(field, default) == IF field = Missing THEN default ELSE field

\* str.split(sep) on a text whose separators are pieces of their own
RECURSIVE Split(_, _)
Split(text, sep) ==
  IF \A i \in DOMAIN text : text[i] # sep
  THEN <<text>>
  ELSE LET k == CHOOSE i \in DOMAIN text :
                  text[i] = sep /\ \A j \in 1..(i - 1) : text[j] # sep
       IN  <<SubSeq(text, 1, k - 1)>> \o Split(SubSeq(text, k + 1, Len(text)), sep)

\* the string a run of pieces spells: empty pieces add nothing
Spell(pieces) == SelectSeq(pieces, LAMBDA p : p # "")

\* the table records the catalog may return
TableRecords ==
  { [id |-> "11", key |-> "1.public.orders", name |-> "orders",
     schema_name |-> "public", fully_qualified_name |-> Missing],
    [id |-> "12", key |-> "2.sales.orders", name |-> "ORDERS",
     schema_name |-> Missing, fully_qualified_name |-> "2.sales.orders"],
    [id |-> "13", key |-> Missing, name |-> "orders",
     schema_name |-> "stage", fully_qualified_name |-> Missing] }

\* what GET /integration/v2/table/ answers: an error status, or a list
TableResponses ==
  {[kind |-> "http_error", records |-> <<>>]}
    \cup {[kind |-> "ok", records |-> l] : l \in UNION {[1..n -> TableRecords] : n \in 0..MaxRecords}}

TableArgs ==
  [tool : {"get_table_info"},
   table_name : {None, "", "orders"},
   key : {None, "1.public.orders"},
   ds_id : {None, "1"},
   schema_name : {None, "public"}]

FullTriple(a) == Truthy(a.ds_id) /\ Truthy(a.schema_name) /\ Truthy(a.table_name)

TripleUrl(a) ==
  <<AL_BASE_URL, "/integration/v2/table/?ds_id=", a.ds_id,
    "&schema_name__iexact=", a.schema_name,
    "&name__iexact=", a.table_name, "&limit=100&skip=0">>

KeyUrl(a) == <<AL_BASE_URL, "/integration/v2/table/?key=", a.key, "&limit=100&skip=0">>

NameUrl(a) ==
  <<AL_BASE_URL, "/integration/v2/table/?name__iexact=", a.table_name, "&limit=100&skip=0">>

TableUsageText ==
  Text(<<"Please provide either 'table_name', 'key', or ('ds_id', 'schema_name', and 'table_name').">>)

\* the one query of a call, <<>> when the arguments name no table
TableQuery_KeyFirst(a) ==
  IF Truthy(a.key) THEN KeyUrl(a)
  ELSE IF FullTriple(a) THEN TripleUrl(a)
  ELSE IF Truthy(a.table_name) THEN NameUrl(a)
  ELSE <<>>

TableQuery(a) ==
  IF FullTriple(a) THEN TripleUrl(a)
  ELSE IF Truthy(a.key) THEN KeyUrl(a)
  ELSE IF Truthy(a.table_name) THEN NameUrl(a)
  ELSE <<>>

NoTableText(a) ==
  IF Truthy(a.key)
  THEN Text(<<"No table found with key '", a.key, "'.">>)
  ELSE IF FullTriple(a)
  THEN Text(<<"No table found with ds_id '", a.ds_id, "', schema '", a.schema_name,
              "', and name '", a.table_name, "'.">>)
  ELSE Text(<<"No table found with name '", a.table_name, "'.">>)

TableFqName(t) ==
  IF Truthy(GetOr(t.fully_qualified_name, None))
  THEN <<t.fully_qualified_name>>
  ELSE <<GetOr(t.schema_name, "N/A"), ".", t.name>>

TableCandidate(t) ==
  <<"- id", ":", " ", t.id, ", name", ":", " ", t.name,
    ", fully qualified name", ":", " ">> \o TableFqName(t)

RECURSIVE TableCandidates(_)
TableCandidates(tables) ==
  IF tables = <<>> THEN <<>>
  ELSE TableCandidate(Head(tables)) \o <<"\n">> \o TableCandidates(Tail(tables))

MultipleTablesText_DropsLast(tables) ==
  Text(<<"Multiple tables found", ":", "\n">>
         \o TableCandidates(SubSeq(tables, 1, Len(tables) - 1))
         \o <<"Please specify the fully qualified name, use the 'key' parameter, or provide ds_id, schema_name, and table_name to narrow down your search.">>)

MultipleTablesText(tables) ==
  Text(<<"Multiple tables found", ":", "\n">> \o TableCandidates(tables)
         \o <<"Please specify the fully qualified name, use the 'key' parameter, or provide ds_id, schema_name, and table_name to narrow down your search.">>)

\* the info block of one record; the record carries no title, description,
\* table_type, sql, table_comment or custom_fields, so the defaults show
TableInfoText(table) ==
  Text(<<"Table ID", ":", " ", table.id, "\n",
         "Table Key", ":", " ", GetOr(table.key, ""), "\n",
         "Table Name", ":", " ", table.name, "\n",
         "Schema", ":", " ", GetOr(table.schema_name, "N/A"), "\n",
         "Title", ":", " ", "", "\n",
         "Description", ":", " ", "", "\n",
         "Table Type", ":", " ", "", "\n",
         "SQL", ":", " ", "", "\n",
         "Comment", ":", " ", "", "\n">>)

\* what the call makes of the list returned
TableOutcome_KeyIgnored(a, tables) ==
  IF tables = <<>> THEN "not_found"
  ELSE IF Len(tables) > 1 /\ ~FullTriple(a) THEN "multiple"
  ELSE "one"

TableOutcome(a, tables) ==
  IF tables = <<>> THEN "not_found"
  ELSE IF Len(tables) > 1 /\ ~Truthy(a.key) /\ ~FullTriple(a) THEN "multiple"
  ELSE "one"

get_table_info(a, resp) ==
  IF TableQuery(a) = <<>>
  THEN [http |-> <<>>, replies |-> <<>>, result |-> Returned(TableUsageText)]
  ELSE
    [http |-> <<HttpGet(TableQuery(a))>>,
     replies |-> <<resp>>,
     result |->
       IF resp.kind = "http_error" THEN Raised("HTTPError")
       ELSE CASE TableOutcome(a, resp.records) = "not_found" ->
                   Returned(NoTableText(a))
              [] TableOutcome(a, resp.records) = "multiple" ->
                   Returned(MultipleTablesText(resp.records))
              [] OTHER -> Returned(TableInfoText(resp.records[1]))]

(* ---------------------- tools.py: get_column_info ---------------------- *)

\* the column records the catalog may return
ColumnRecords ==
  { [id |-> "21", key |-> "1.public.orders.guest_id", name |-> "guest_id",
     schema_name |-> "public", table_name |-> "orders",
     fully_qualified_name |-> Missing],
    [id |-> "22", key |-> "1.public.guests.GUEST_ID", name |-> "GUEST_ID",
     schema_name |-> Missing, table_name |-> Missing,
     fully_qualified_name |-> "1.public.guests.GUEST_ID"] }

\* what GET /integration/v2/column/ answers: an error status, or a list
ColumnResponses ==
  {[kind |-> "http_error", records |-> <<>>]}
    \cup {[kind |-> "ok", records |-> l] : l \in UNION {[1..n -> ColumnRecords] : n \in 0..MaxRecords}}

ColumnArgs ==
  [tool : {"get_column_info"},
   table_name : {"orders", "guests"},
   column_name : {"guest_id", "GUEST_ID"}]

ColumnCandidate(t) ==
  <<"- id", ":", " ", t.id, ", name", ":", " ", t.name,
    ", fully qualified name", ":", " ">>
    \o (IF Truthy(GetOr(t.fully_qualified_name, None))
        THEN <<t.fully_qualified_name>>
        ELSE <<GetOr(t.schema_name, "N/A"), ".", GetOr(t.table_name, "N/A"), ".", t.name>>)

RECURSIVE ColumnCandidates(_)
ColumnCandidates(columns) ==
  IF columns = <<>> THEN <<>>
  ELSE ColumnCandidate(Head(columns)) \o <<"\n">> \o ColumnCandidates(Tail(columns))

MultipleColumnsText(columns) ==
  Text(<<"Multiple columns found", ":", "\n">> \o ColumnCandidates(columns)
         \o <<"Please specify the fully qualified name to narrow down your search.">>)

\* the info block of one record; the record carries no data_type, nullable,
\* default, description or custom_fields, so the defaults show
ColumnInfoText(col) ==
  Text(<<"Column ID", ":", " ", GetOr(col.id, "N/A"), "\n",
         "Column Key", ":", " ", GetOr(col.key, ""), "\n",
         "Column Name", ":", " ", col.name, "\n",
         "Type", ":", " ", "", "\n",
         "Nullable", ":", " ", "", "\n",
         "Default", ":", " ", "", "\n",
         "Description", ":", " ", "", "\n">>)

get_column_info(a, resp) ==
  [http |-> <<HttpGet(<<AL_BASE_URL, "/integration/v2/column/?name__iexact=", a.column_name,
                    "&limit=100&skip=0">>)>>,
   replies |-> <<resp>>,
   result |->
     IF resp.kind = "http_error" THEN Raised("HTTPError")
     ELSE IF resp.records = <<>> THEN Returned(Text(<<"No column found with name '", a.column_name, "'.">>))
     ELSE IF Len(resp.records) > 1 THEN Returned(MultipleColumnsText(resp.records))
     ELSE IF resp.records[1].name = a.column_name
          THEN Returned(ColumnInfoText(resp.records[1]))
          ELSE Returned(Text(<<"No column named '", a.column_name, "' found in table '",
                               a.table_name, "'.">>))]

(* -------------------- tools.py: update_custom_field -------------------- *)

\* the longest list value of a call in the model
MaxItems == 2

\* the value argument: a list of users, or a scalar
FieldValues ==
  [is_list : {TRUE}, items : UNION {[1..n -> {"alice", "bob"}] : n \in 0..MaxItems}]
    \cup [is_list : {FALSE}, items : {<<"alice">>, <<"">>}]

UpdateFieldArgs ==
  [tool : {"update_custom_field"}, otype : {"table"}, object_id : {"42"},
   field_id : {8}, value : FieldValues, operation : Operations]

\* how the commit POST ends: a 2xx status, no connection, or an error status
CommitResponses == [kind : {"ok", "connection_error", "http_error"}]

CommitUrl(a) ==
  <<AL_BASE_URL, "/api/field/object/", a.otype, "/", a.object_id, "/",
    Str(a.field_id), "/commit/">>

\* the value as submitted
CommitValue_KeepsList(value) == value

CommitValue(value) ==
  IF value.is_list
  THEN IF Len(value.items) = 1
       THEN [is_list |-> FALSE, items |-> <<value.items[1]>>]
       ELSE value
  ELSE value

\* the requests of one call
CommitRequests_ValidOnly(a) ==
  IF a.operation \in {"replace", "add", "remove"}
  THEN <<HttpPost(CommitUrl(a), [op |-> a.operation, value |-> CommitValue(a.value)])>>
  ELSE <<>>

CommitRequests(a) == <<HttpPost(CommitUrl(a), [op |-> a.operation, value |-> CommitValue(a.value)])>>

CommitSuccessText(a) ==
  Text(<<"Custom field '", Str(a.field_id), "' updated on ", a.otype, " '",
         a.object_id, "' with operation '", a.operation, "'.">>)

CommitResult_Raises(a, resp) ==
  IF resp.kind = "ok" THEN Returned(CommitSuccessText(a)) ELSE Raised("RequestException")

CommitResult(a, resp) ==
  IF resp.kind = "ok" THEN Returned(CommitSuccessText(a))
  ELSE Returned(Text(<<"Error updating custom field: ", "<exception>", " - ",
                       IF resp.kind = "http_error" THEN "<body>" ELSE "">>))

update_custom_field(a, resp) ==
  [http |-> CommitRequests(a),
   replies |-> <<resp>>,
   result |-> CommitResult(a, resp)]

(* -------------- tools.py: update_title, update_description ------------- *)

\* the key read back from an info text: the part after the first colon of
\* the last line labelled Table Key or Column Key, None without such a line
RECURSIVE KeyOfLines(_, _)
KeyOfLines(lines, key) ==
  IF lines = <<>> THEN key
  ELSE LET info_key_value == Split(Head(lines), ":")
       IN  KeyOfLines(Tail(lines),
                      IF Spell(info_key_value[1]) \in {<<"Column Key">>, <<"Table Key">>}
                      THEN Spell(info_key_value[2])
                      ELSE key)

get_key_from_object_info(object_info) == KeyOfLines(Split(object_info, "\n"), None)

UpdateArgs(tool) ==
  [tool : {tool}, otype : {"table", "attribute", "schema"},
   object_name : {None, "orders"}, key : {None, "1.public.orders"},
   value : {"Orders placed"}]

\* get_table_info(ctx, table_name=object_name)
LookupArgs(a) ==
  [tool |-> "get_table_info", table_name |-> a.object_name, key |-> None,
   ds_id |-> None, schema_name |-> None]

\* the call looks the object up by name
LooksUp(a) == ~Truthy(a.key) /\ Truthy(a.object_name) /\ a.otype = "table"

\* get_column_info(ctx, column_name=object_name) lacks the required table_name
CallsColumnInfo(a) == ~Truthy(a.key) /\ Truthy(a.object_name) /\ a.otype = "attribute"

MutationPayload(field, key, value) ==
  IF field = "title" THEN [key |-> key, title |-> value]
  ELSE [key |-> key, description |-> value]

MutationErrorText(field, resp) ==
  Text(<<IF field = "title" THEN "Error updating title: "
         ELSE "Error updating description: ",
         "<exception>", " - ", IF resp.kind = "http_error" THEN "<body>" ELSE "">>)

MutationSuccessText(field, a) ==
  Text(<<IF field = "title" THEN "Title is successfully updated for "
         ELSE "Description is successfully updated for ",
         a.otype, " '", a.object_name, "' ">>)

\* the key the mutation goes by: the one supplied, else the one looked up
ResolvedKey(a, lookup) ==
  IF Truthy(a.key) THEN <<a.key>>
  ELSE IF LooksUp(a) THEN get_key_from_object_info(lookup.result.text)
  ELSE None

\* the second half of the call, once key is settled
Mutate_Unguarded(field, a, key, presp) ==
  [http |-> <<HttpPost(<<AL_BASE_URL, "/integration/v2/table/">>, MutationPayload(field, key, a.value))>>,
   replies |-> <<presp>>,
   result |-> IF presp.kind = "ok" THEN Returned(MutationSuccessText(field, a))
              ELSE Returned(MutationErrorText(field, presp))]

Mutate(field, a, key, presp) ==
  IF key # None /\ key # <<>>
  THEN [http |-> <<HttpPost(<<AL_BASE_URL, "/integration/v2/table/">>, MutationPayload(field, key, a.value))>>,
        replies |-> <<presp>>,
        result |-> IF presp.kind = "ok" THEN Returned(MutationSuccessText(field, a))
                   ELSE Returned(MutationErrorText(field, presp))]
  ELSE [http |-> <<>>, replies |-> <<>>, result |-> Returned(Text(<<"No {otype} found with name {object_name}.">>))]

UpdateObject(field, a, lresp, presp) ==
  LET lookup == get_table_info(LookupArgs(a), lresp)
  IN  IF ~Truthy(a.key) /\ ~Truthy(a.object_name)
      THEN [http |-> <<>>, replies |-> <<>>, result |-> Returned(Text(<<"Please provide a ", a.otype, " name or key">>))]
      ELSE IF LooksUp(a) /\ lookup.result.kind = "raised"
      THEN lookup
      ELSE IF CallsColumnInfo(a)
      THEN [http |-> <<>>, replies |-> <<>>, result |-> Raised("TypeError")]
      ELSE LET m == Mutate(field, a, ResolvedKey(a, lookup), presp)
           IN  IF LooksUp(a)
               THEN [http |-> lookup.http \o m.http,
                     replies |-> lookup.replies \o m.replies,
                     result |-> m.result]
               ELSE m

update_title(a, lresp, presp) == UpdateObject("title", a, lresp, presp)

update_description(a, lresp, presp) == UpdateObject("description", a, lresp, presp)

\* the call sends the mutation POST
Mutates(a, lresp) ==
  /\ ~CallsColumnInfo(a)
  /\ \/ Truthy(a.key)
     \/ /\ LooksUp(a)
        /\ lresp.kind = "ok"
        /\ LET key == ResolvedKey(a, get_table_info(LookupArgs(a), lresp))
           IN  key # None /\ key # <<>>

(* ------------------------ tools.py: the actions ------------------------ *)

\* propagate_custom_field is called with arguments from A: the consent
\* gate, the validation and the submission
Propagate(A) ==
  /\ pc = "idle"
  /\ \E a \in A, sresp \in SubmitResponses :
       LET s == Submit(a, sresp)
       IN  /\ args' = a
           /\ http' = s.http
           /\ replies' = IF s.http = <<>> THEN <<>> ELSE <<sresp>>
           /\ result' = s.result
           /\ job_id' = s.job_id
           /\ job_url' = s.job_url
           /\ pc' = IF s.result = Running THEN "polling" ELSE "done"
  /\ attempt' = 0
  /\ job_data' = NoJobData
  /\ wire' = Wire(http')
  /\ elapsed' = 0
  /\ UNCHANGED <<auth_vars, chat_vars>>

\* one iteration of the polling loop: the status request takes a time from
\* D and is answered from R, and a poll that ends nothing is followed by
\* the sleep
Polling(R, D) ==
  /\ pc = "polling"
  /\ \E jresp \in R, d \in D :
       LET r == Poll(args, job_url, attempt, jresp)
       IN  /\ job_data' = jresp
           /\ result' = r
           /\ pc' = IF r = Running THEN "polling" ELSE "done"
           /\ elapsed' = elapsed + d + (IF Sleeps(args, job_url, attempt, jresp)
                                        THEN PollSleep ELSE 0)
  /\ http' = Append(http, StatusRequest(job_url))
  /\ attempt' = attempt + 1
  /\ UNCHANGED <<args, replies, job_id, job_url>>
  /\ wire' = Wire(http')
  /\ UNCHANGED <<auth_vars, chat_vars>>

\* the agent calls propagate_custom_field
PropagateCustomField == Propagate(PropagateArgs)

\* the polling loop with the time of the requests left out
PollJob == Polling(JobResponses, {0})

\* the call whose polling phase is timed
PropagateTimed ==
  Propagate({a \in PropagateArgs :
       /\ a.consent
       /\ a.object_type = "table"
       /\ a.direction = "downstream"
       /\ a.operation = "replace"
       /\ a.target_scope = <<>>
       /\ a.value.is_list})

\* its polls: each answer keeps the loop going or ends it, and comes at
\* once or after all the time the timeout of the request allows
PollTimed ==
  Polling({jresp \in JobResponses :
       \/ jresp.kind = "request_error"
       \/ jresp.status \in {"running", "succeeded", "failed"} /\ jresp.state \in {"running", "finished"}},
          {0, RequestTimeout})

\* the agent calls search_data_products
SearchDataProducts ==
  /\ pc = "idle"
  /\ \E a \in SearchArgs, resp \in SearchResponses :
       LET s == search_data_products(a, resp)
       IN  /\ args' = a
           /\ http' = s.http
           /\ result' = s.result
  /\ pc' = "done"
  /\ replies' = <<>>
  /\ attempt' = 0
  /\ job_id' = None
  /\ job_url' = <<>>
  /\ job_data' = NoJobData
  /\ wire' = Wire(http')
  /\ elapsed' = 0
  /\ UNCHANGED <<auth_vars, chat_vars>>

\* the agent calls get_table_info
GetTableInfo ==
  /\ pc = "idle"
  /\ \E a \in TableArgs :
     \E resp \in Answers(TableResponses, TableQuery(a) # <<>>) :
       LET s == get_table_info(a, resp)
       IN  /\ args' = a
           /\ http' = s.http
           /\ replies' = s.replies
           /\ result' = s.result
  /\ pc' = "done"
  /\ attempt' = 0
  /\ job_id' = None
  /\ job_url' = <<>>
  /\ job_data' = NoJobData
  /\ wire' = Wire(http')
  /\ elapsed' = 0
  /\ UNCHANGED <<auth_vars, chat_vars>>

\* the agent calls get_column_info
GetColumnInfo ==
  /\ pc = "idle"
  /\ \E a \in ColumnArgs, resp \in ColumnResponses :
       LET s == get_column_info(a, resp)
       IN  /\ args' = a
           /\ http' = s.http
           /\ replies' = s.replies
           /\ result' = s.result
  /\ pc' = "done"
  /\ attempt' = 0
  /\ job_id' = None
  /\ job_url' = <<>>
  /\ job_data' = NoJobData
  /\ wire' = Wire(http')
  /\ elapsed' = 0
  /\ UNCHANGED <<auth_vars, chat_vars>>

\* the agent calls update_custom_field
UpdateCustomField ==
  /\ pc = "idle"
  /\ \E a \in UpdateFieldArgs, resp \in CommitResponses :
       LET s == update_custom_field(a, resp)
       IN  /\ args' = a
           /\ http' = s.http
           /\ replies' = s.replies
           /\ result' = s.result
  /\ pc' = "done"
  /\ attempt' = 0
  /\ job_id' = None
  /\ job_url' = <<>>
  /\ job_data' = NoJobData
  /\ wire' = Wire(http')
  /\ elapsed' = 0
  /\ UNCHANGED <<auth_vars, chat_vars>>

\* the agent calls update_title
UpdateTitle ==
  /\ pc = "idle"
  /\ \E a \in UpdateArgs("update_title") :
     \E lresp \in Answers(TableResponses, LooksUp(a)) :
     \E presp \in Answers(CommitResponses, Mutates(a, lresp)) :
       LET s == update_title(a, lresp, presp)
       IN  /\ args' = a
           /\ http' = s.http
           /\ replies' = s.replies
           /\ result' = s.result
  /\ pc' = "done"
  /\ attempt' = 0
  /\ job_id' = None
  /\ job_url' = <<>>
  /\ job_data' = NoJobData
  /\ wire' = Wire(http')
  /\ elapsed' = 0
  /\ UNCHANGED <<auth_vars, chat_vars>>

\* the agent calls update_description
UpdateDescription ==
  /\ pc = "idle"
  /\ \E a \in UpdateArgs("update_description") :
     \E lresp \in Answers(TableResponses, LooksUp(a)) :
     \E presp \in Answers(CommitResponses, Mutates(a, lresp)) :
       LET s == update_description(a, lresp, presp)
       IN  /\ args' = a
           /\ http' = s.http
           /\ replies' = s.replies
           /\ result' = s.result
  /\ pc' = "done"
  /\ attempt' = 0
  /\ job_id' = None
  /\ job_url' = <<>>
  /\ job_data' = NoJobData
  /\ wire' = Wire(http')
  /\ elapsed' = 0
  /\ UNCHANGED <<auth_vars, chat_vars>>

\* the call has ended and the agent loop has its result: the next call
\* starts afresh
ReturnToAgent ==
  /\ pc = "done"
  /\ pc' = "idle"
  /\ args' = NoArgs
  /\ http' = <<>>
  /\ replies' = <<>>
  /\ attempt' = 0
  /\ job_id' = None
  /\ job_url' = <<>>
  /\ job_data' = NoJobData
  /\ result' = Running
  /\ wire' = Wire(http')
  /\ elapsed' = 0
  /\ UNCHANGED <<auth_vars, chat_vars>>

ToolsInit ==
  /\ pc = "idle"
  /\ args = NoArgs
  /\ http = <<>>
  /\ replies = <<>>
  /\ attempt = 0
  /\ job_id = None
  /\ job_url = <<>>
  /\ job_data = NoJobData
  /\ result = Running
  /\ wire = NoWire
  /\ elapsed = 0

ToolsNext ==
  \/ PropagateCustomField
  \/ PollJob
  \/ SearchDataProducts
  \/ ReturnToAgent

\* one propagation with the time of its polling phase counted
PollingNext ==
  \/ PropagateTimed
  \/ PollTimed
  \/ ReturnToAgent

\* the catalog's read and update tools
CatalogNext ==
  \/ GetTableInfo
  \/ GetColumnInfo
  \/ UpdateCustomField
  \/ UpdateTitle
  \/ UpdateDescription
  \/ ReturnToAgent

(* ------------------- chat.py, chat_api.py: start-up -------------------- *)

\* main() of chat.py and the module body of chat_api.py: one AlationAuth,
\* one get_authenticated_session, one Dependencies for the whole process.
\* When the session cannot be had the exception ends the start-up.
BuildDependencies ==
  /\ deps = NoDeps
  /\ call = NoCall
  /\ \E rresp \in Answers(RefreshResponses,
                          Sends(get_authenticated_session(al_auth, AnyRefresh, AnyAccess, now),
                                REFRESH_TOKEN_URL)) :
       \E aresp \in Answers(AccessResponses,
                            Sends(get_authenticated_session(al_auth, rresp, AnyAccess, now),
                                  ACCESS_TOKEN_URL)) :
         LET r == get_authenticated_session(al_auth, rresp, aresp, now)
         IN  /\ Bookkeeping("get_authenticated_session", FALSE, r)
             /\ deps' = IF r.raised = None
                        THEN [id |-> 1, session |-> r.self.session,
                              al_base_url |-> AL_BASE_URL]
                        ELSE deps
  /\ UNCHANGED <<tool_vars, runs>>

\* the chat loop of main(): the agent calls tools with the bundle built at
\* start-up, for as long as the process runs
ChatGetTableInfo == deps # NoDeps /\ GetTableInfo

ChatUpdateCustomField == deps # NoDeps /\ UpdateCustomField

SessionNext ==
  \/ BuildDependencies
  \/ Tick
  \/ ChatGetTableInfo
  \/ ChatUpdateCustomField
  \/ ReturnToAgent

(* ----------------------- chat_api.py: the endpoints -------------------- *)

\* the conversations whose requests may overlap
Conversations == {"c1", "c2"}

\* the most tool invocations of one agent run in the model
MaxToolCalls == 2

NoRun == [endpoint |-> None, deps |-> 0, calls |-> 0]

Serving(c) == runs[c].endpoint # None

\* agent.run(..., deps=deps) begins: deps is the module's one bundle
AgentRun(c, endpoint) ==
  /\ deps # NoDeps
  /\ ~Serving(c)
  /\ runs' = [runs EXCEPT ![c] = [endpoint |-> endpoint, deps |-> deps.id, calls |-> 0]]
  /\ UNCHANGED <<auth_vars, tool_vars, deps>>

\* POST /chat
ChatEndpoint == \E c \in Conversations : AgentRun(c, "/chat")

\* POST /chat/stream
ChatStreamEndpoint == \E c \in Conversations : AgentRun(c, "/chat/stream")

\* the agent run of a conversation invokes a tool with its deps; the run is
\* awaited, so the runs of other requests go on meanwhile
ToolInvocation ==
  \E c \in Conversations :
    /\ Serving(c)
    /\ runs[c].calls < MaxToolCalls
    /\ runs' = [runs EXCEPT ![c].calls = @ + 1]
    /\ UNCHANGED <<auth_vars, tool_vars, deps>>

\* the run is over and the response goes back
Respond ==
  \E c \in Conversations :
    /\ Serving(c)
    /\ runs' = [runs EXCEPT ![c] = NoRun]
    /\ UNCHANGED <<auth_vars, tool_vars, deps>>

ChatInit ==
  /\ deps = NoDeps
  /\ runs = [c \in Conversations |-> NoRun]

ChatNext ==
  \/ BuildDependencies
  \/ ChatEndpoint
  \/ ChatStreamEndpoint
  \/ ToolInvocation
  \/ Respond

Init == AuthInit /\ ToolsInit /\ ChatInit

SpecAuth == Init /\ [][AuthNext]_vars

SpecTools == Init /\ [][ToolsNext]_vars

SpecCatalog == Init /\ [][CatalogNext]_vars

SpecChat == Init /\ [][ChatNext]_vars

SpecSession == Init /\ [][SessionNext]_vars

SpecPolling == Init /\ [][PollingNext]_vars

(* ===================== the session provider's claims =================== *)

MintRequests(c) == {i \in DOMAIN c.requests : c.requests[i].url = ACCESS_TOKEN_URL}

RefreshRequests(c) == {i \in DOMAIN c.requests : c.requests[i].url = REFRESH_TOKEN_URL}

\* a timestamp with an offset (or Z) naming an instant before / after t
AwarePast(stamp, t) == stamp.fmt \in {"zulu", "offset"} /\ stamp.t < t

AwareFuture(stamp, t) == stamp.fmt \in {"zulu", "offset"} /\ stamp.t > t

\* a timestamp that cannot be evaluated as an expiry time
Unevaluable(stamp) == stamp.fmt \in {"malformed", "naive"}

\* the cached token is missing or expired when the call begins
MissingOrExpired(c) ==
  \/ c.pre.access_token_obj = NoToken
  \/ c.pre.access_token_obj.token_expires_at.fmt = "malformed"
  \/ /\ c.pre.access_token_obj.token_expires_at.fmt \in {"zulu", "offset"}
     /\ c.at >= c.pre.access_token_obj.token_expires_at.t

C5_Case ==
  /\ call.op = "get_access_token"
  /\ AwarePast(call.pre.access_token_obj.token_expires_at, call.at)

C6_Claim ==
  (/\ call.op = "_is_token_expired"
   /\ Unevaluable(call.pre.access_token_obj.token_expires_at))
  => (call.raised = None /\ call.value = TRUE)

\* C7: at most one refresh-token exchange completes; a call that finds a
\* refresh token and user id cached sends no refresh-token request and leaves
\* them as they are; every access-token request carries the cached pair.
C7_OneRefreshExchange ==
  /\ exchanges <= 1
  /\ (call.pre.refresh_token # None /\ call.pre.user_id # None) =>
       /\ RefreshRequests(call) = {}
       /\ al_auth.refresh_token = call.pre.refresh_token
       /\ al_auth.user_id = call.pre.user_id
  /\ \A i \in MintRequests(call) :
       /\ call.requests[i].data.refresh_token # None
       /\ call.requests[i].data.user_id # None
       /\ call.requests[i].data.refresh_token = al_auth.refresh_token
       /\ call.requests[i].data.user_id = al_auth.user_id

C7_Witness ==
  /\ exchanges = 1
  /\ call.pre.refresh_token # None
  /\ call.pre.access_token_obj # NoToken
  /\ MintRequests(call) # {}

C9_ErrorStatusRaises ==
  \A i \in DOMAIN call.requests :
    call.requests[i].kind = "http_error" =>
      /\ call.raised = "HTTPError"
      /\ i = Len(call.requests)
      /\ al_auth.access_token_obj = call.pre.access_token_obj
      /\ call.requests[i].url = REFRESH_TOKEN_URL =>
           (al_auth.refresh_token = None /\ al_auth.user_id = None)

C9_Witness ==
  /\ call.op = "get_access_token"
  /\ call.raised = "HTTPError"
  /\ call.pre.access_token_obj # NoToken
  /\ MintRequests(call) # {}
  /\ al_auth.access_token_obj = call.pre.access_token_obj


(* ========================== the tools' claims ========================== *)

Contains(text, word) == \E i \in DOMAIN text : text[i] = word

StatusRequests == {i \in DOMAIN http : http[i].method = "GET"}

Submissions == {i \in DOMAIN http : http[i].method = "POST"}

Propagating == args.tool = "propagate_custom_field"

\* the last job-status request was answered with a JSON body
StatusRead == Propagating /\ job_data.kind = "ok"

\* C1: propagate_custom_field without consent sends no request, whatever its
\* other arguments, and returns a text that has the word consent and names
\* the children for downstream and the parents otherwise.
C1_ConsentGate ==
  (Propagating /\ ~args.consent) =>
    /\ pc = "done"
    /\ http = <<>>
    /\ result.kind = "returned"
    /\ Contains(result.text, "consent")
    /\ Contains(result.text, IF args.direction = "downstream" THEN "children" ELSE "parents")
    /\ ~Contains(result.text, IF args.direction = "downstream" THEN "parents" ELSE "children")

C1_Witness ==
  /\ Propagating
  /\ ~args.consent
  /\ args.operation = "purge"
  /\ args.direction = "sideways"
  /\ args.target_scope = <<>>
  /\ result.kind = "returned"

\* C2: when the k-th status response is the first terminal success (the
\* earlier ones having kept the loop going), the call returns the success
\* message after exactly k status requests and sends no further one.
C2_SuccessAtPollK ==
  (/\ StatusRead
   /\ job_data.status \in {"succeeded", "partial_success"}
   /\ job_data.state = "finished")
  => /\ pc = "done"
     /\ result = Returned(SuccessText(args, job_url))
     /\ attempt \in 1..PollAttempts
     /\ Cardinality(StatusRequests) = attempt
     /\ Len(http) = attempt + 1

C2_Witness ==
  /\ StatusRead
  /\ job_data.status = "partial_success"
  /\ job_data.state = "finished"
  /\ attempt = PollAttempts
  /\ result = Returned(SuccessText(args, job_url))

\* the lowered (status, state) of the body read is neither a terminal success
\* nor a terminal failure
NonTerminal ==
  /\ job_data.status # Null
  /\ job_data.state # Null
  /\ ~(/\ Lower(job_data.status) \in {"succeeded", "partial_success"}
       /\ Lower(job_data.state) = "finished")
  /\ Lower(job_data.status) \notin {"failed", "did_not_start", "skipped"}

\* C3: after 60 status responses that are all non-terminal the call has ended
\* with exactly 60 status requests sent and returns the timeout message:
\* not empty, not the success, failure or error message, and with the
\* status URL of the submitted job id in it.
C3_TimeoutAfterBudget ==
  (StatusRead /\ NonTerminal /\ attempt = PollAttempts)
  => /\ pc = "done"
     /\ Cardinality(StatusRequests) = PollAttempts
     /\ result.kind = "returned"
     /\ result.text # <<>>
     /\ result.text # SuccessText(args, job_url)
     /\ result.text # FailedText(job_url)
     /\ result.text # PollErrorText
     /\ job_id \in JobIds
     /\ IsInfix(<<AL_BASE_URL, "/api/job/", job_id, "/">>, result.text)

C3_Witness ==
  /\ StatusRead
  /\ job_data.status = "running"
  /\ job_data.state = "running"
  /\ attempt = PollAttempts
  /\ pc = "done"
  /\ result.kind = "returned"

\* what the call did with the body it read last
Outcome ==
  IF result = Returned(SuccessText(args, job_url)) THEN "success"
  ELSE IF result = Returned(FailedText(job_url)) THEN "failure"
  ELSE IF result.kind = "raised" THEN "raised"
  ELSE IF pc = "polling" \/ result = Returned(TimeoutText(job_url)) THEN "continue"
  ELSE "other"

\* the body read last has a status and a state that are strings (an absent
\* field reads as the empty string)
PairRead == StatusRead /\ job_data.status # Null /\ job_data.state # Null

\* C4 (as stated): a (status, state) pair is a terminal success iff status
\* is succeeded or partial_success and state is finished, a terminal failure
\* iff status is failed, did_not_start or skipped, and otherwise continues
\* the polling.
C4_Original ==
  PairRead =>
    Outcome =
      IF job_data.status \in {"succeeded", "partial_success"} /\ job_data.state = "finished"
      THEN "success"
      ELSE IF job_data.status \in {"failed", "did_not_start", "skipped"} THEN "failure"
      ELSE "continue"

\* C4 (amended): status and state are compared in lower case: a pair is a
\* terminal success iff the lowered status is succeeded or partial_success
\* and the lowered state is finished, a terminal failure iff the lowered
\* status is failed, did_not_start or skipped, whatever the state, and
\* otherwise continues the polling.
C4_Amended ==
  PairRead =>
    Outcome =
      IF /\ Lower(JsonGet(job_data.status)) \in {"succeeded", "partial_success"}
         /\ Lower(JsonGet(job_data.state)) = "finished"
      THEN "success"
      ELSE IF Lower(JsonGet(job_data.status)) \in {"failed", "did_not_start", "skipped"}
      THEN "failure"
      ELSE "continue"

C4_Witness ==
  /\ StatusRead
  /\ job_data.status = "skipped"
  /\ job_data.state = "running"
  /\ Outcome = "failure"

\* C10: search_data_products with a limit above 100 raises ModelRetry and
\* sends no request.
C10_LimitRejected ==
  (args.tool = "search_data_products" /\ args.limit > 100) =>
    /\ result = Raised("ModelRetry")
    /\ http = <<>>

C10_Witness ==
  /\ args.tool = "search_data_products"
  /\ args.limit = 101
  /\ result = Raised("ModelRetry")

(* ====================== the catalog tools' claims ====================== *)

Supplied(x) == x # None /\ x # ""

TableCall == args.tool = "get_table_info"

TripleSupplied ==
  Supplied(args.ds_id) /\ Supplied(args.schema_name) /\ Supplied(args.table_name)

\* C11: get_table_info sends one query chosen by precedence: by the triple
\* when ds_id, schema_name and table_name are all supplied (a key supplied as
\* well changes nothing), else by key, else by case-insensitive exact name;
\* with none of these it returns the usage text and sends no request.
C11_QueryPrecedence ==
  TableCall =>
    /\ TripleSupplied => http = <<HttpGet(TripleUrl(args))>>
    /\ ~TripleSupplied /\ Supplied(args.key) => http = <<HttpGet(KeyUrl(args))>>
    /\ ~TripleSupplied /\ ~Supplied(args.key) /\ Supplied(args.table_name) =>
         /\ http = <<HttpGet(NameUrl(args))>>
         /\ Contains(http[1].url, "/integration/v2/table/?name__iexact=")
    /\ ~TripleSupplied /\ ~Supplied(args.key) /\ ~Supplied(args.table_name) =>
         /\ http = <<>>
         /\ result = Returned(TableUsageText)

C11_Witness ==
  /\ TableCall
  /\ TripleSupplied
  /\ Supplied(args.key)
  /\ http = <<HttpGet(TripleUrl(args))>>
  /\ result.kind = "returned"

\* the call named the table by name only and the catalog returned a list
NameOnly ==
  /\ TableCall
  /\ ~TripleSupplied
  /\ ~Supplied(args.key)
  /\ Supplied(args.table_name)
  /\ replies # <<>>
  /\ replies[1].kind = "ok"

ReturnedRecords == replies[1].records

IsCandidateLine(line) == line # <<>> /\ line[1] = "- id"

\* the candidate lines of a disambiguation text, in the order written
CandidateLines == SelectSeq(Split(result.text, "\n"), IsCandidateLine)

HasKey(rec) == rec.key # Missing

ListReturned == replies # <<>> /\ replies[1].kind = "ok"

IsNotFoundText ==
  /\ result.kind = "returned"
  /\ result.text # <<>>
  /\ result.text[1] \in {"No table found with key '", "No table found with ds_id '",
                         "No table found with name '"}

IsDisambiguation ==
  /\ result.kind = "returned"
  /\ result.text # <<>>
  /\ result.text[1] = "Multiple tables found"

\* the text is the info block of rec and of no other record
RendersOnly(rec) ==
  /\ result.kind = "returned"
  /\ SubSeq(result.text, 1, 15) =
       <<"Table ID", ":", " ", rec.id, "\n",
         "Table Key", ":", " ", IF HasKey(rec) THEN rec.key ELSE "", "\n",
         "Table Name", ":", " ", rec.name, "\n">>
  /\ Cardinality({i \in DOMAIN result.text : result.text[i] = "Table ID"}) = 1

\* C13: get_table_info returns the not-found text iff the catalog returned
\* zero records for the query sent; the disambiguation text iff it returned
\* more than one record and neither a key nor the full triple was supplied;
\* in every other case with a record it renders the first record only.
C13_ThreeOutcomes ==
  TableCall =>
    /\ IsNotFoundText <=> (ListReturned /\ Len(ReturnedRecords) = 0)
    /\ IsDisambiguation <=>
         /\ ListReturned
         /\ Len(ReturnedRecords) > 1
         /\ ~Supplied(args.key)
         /\ ~TripleSupplied
    /\ /\ ListReturned
       /\ Len(ReturnedRecords) >= 1
       /\ ~(Len(ReturnedRecords) > 1 /\ ~Supplied(args.key) /\ ~TripleSupplied)
       => RendersOnly(ReturnedRecords[1]) /\ ~IsDisambiguation

C13_Witness ==
  /\ TableCall
  /\ ListReturned
  /\ Len(ReturnedRecords) > 1
  /\ ReturnedRecords[1] # ReturnedRecords[2]
  /\ Supplied(args.key)
  /\ ~TripleSupplied
  /\ RendersOnly(ReturnedRecords[1])

ColumnCall == args.tool = "get_column_info"

SameUpToCase(a, b) == Lower(a) = Lower(b)

\* C14: get_column_info matches on the column name alone, whatever the
\* letter case and whatever table_name: when the catalog returns exactly one
\* column whose name equals column_name up to letter case, the result is
\* that column's info block with its Column ID and Column Key, and the
\* query does not carry table_name.
C14_Claim ==
  ColumnCall =>
    /\ ~Contains(http[1].url, args.table_name)
    /\ /\ ListReturned
       /\ Len(ReturnedRecords) = 1
       /\ SameUpToCase(ReturnedRecords[1].name, args.column_name)
       => /\ result.kind = "returned"
          /\ IsInfix(<<"Column ID", ":", " ", ReturnedRecords[1].id>>, result.text)
          /\ IsInfix(<<"Column Key", ":", " ", ReturnedRecords[1].key>>, result.text)
          /\ result.text[1] \notin {"No column found with name '", "No column named '"}

UpdateFieldCall == args.tool = "update_custom_field"

\* the commit POSTs of the call
Commits == {i \in DOMAIN http : http[i].method = "POST"}

C16_OnePostAnyOperation ==
  UpdateFieldCall =>
    /\ Cardinality(Commits) = 1
    /\ Len(http) = 1
    /\ http[1].url = CommitUrl(args)
    /\ http[1].json.op = args.operation

C16_Witness ==
  /\ UpdateFieldCall
  /\ args.operation \notin {"replace", "add", "remove"}
  /\ Cardinality(Commits) = 1
  /\ http[1].json.op = args.operation

CommitFailed == replies # <<>> /\ replies[1].kind \in {"connection_error", "http_error"}

\* C17: when the commit request fails, by a connection failure or an error
\* status, update_custom_field does not raise: it returns a text starting
\* "Error updating custom field", never the success message.
C17_CommitFailureIsText ==
  UpdateFieldCall /\ CommitFailed =>
    /\ result.kind = "returned"
    /\ result.text[1] = "Error updating custom field: "
    /\ ~Contains(result.text, "' updated on ")

C17_Witness ==
  /\ UpdateFieldCall
  /\ replies = <<[kind |-> "http_error"]>>
  /\ result.kind = "returned"
  /\ result.text[1] = "Error updating custom field: "

UpdateCall == args.tool \in {"update_title", "update_description"}

MutationPosts == {i \in DOMAIN http : http[i].method = "POST"}

\* the call looked the object up by name and the catalog returned a list
NameLookedUp ==
  /\ http # <<>>
  /\ http[1].method = "GET"
  /\ replies[1].kind = "ok"

\* C18: update_title and update_description send the mutation POST only if
\* a key was supplied or the name lookup returned exactly one record; with
\* neither key nor object_name they return the usage message and send no
\* request; when the lookup returns zero or several records they return a
\* text and send no mutation POST.
C18_MutationGate ==
  UpdateCall =>
    /\ MutationPosts # {} =>
         \/ Supplied(args.key)
         \/ NameLookedUp /\ Len(ReturnedRecords) = 1
    /\ ~Supplied(args.key) /\ ~Supplied(args.object_name) =>
         /\ result = Returned(<<"Please provide a ", args.otype, " name or key">>)
         /\ http = <<>>
    /\ NameLookedUp /\ Len(ReturnedRecords) # 1 =>
         /\ result.kind = "returned"
         /\ MutationPosts = {}

C18_Witness ==
  /\ UpdateCall
  /\ ~Supplied(args.key)
  /\ NameLookedUp
  /\ Len(ReturnedRecords) > 1
  /\ result.kind = "returned"
  /\ MutationPosts = {}

\* C19: when update_title or update_description is called without a key and
\* object_name resolves to exactly one table (otype table) or one column
\* (otype attribute), a payload is submitted and its "key" is exactly the
\* canonical key the catalog returned for that object.
C19_Claim ==
  UpdateCall /\ ~Supplied(args.key) /\ Supplied(args.object_name) =>
    /\ /\ args.otype = "table"
       /\ NameLookedUp
       /\ Len(ReturnedRecords) = 1
       /\ HasKey(ReturnedRecords[1])
       => /\ MutationPosts # {}
          /\ \A i \in MutationPosts : http[i].json.key = <<ReturnedRecords[1].key>>
    /\ args.otype = "attribute" => result.kind # "raised"

(* ===================== the tools' claims, continued ==================== *)

\* the call passed the consent gate and the validation of operation and
\* direction
Validated ==
  /\ Propagating
  /\ args.consent
  /\ args.operation \in {"add", "replace", "remove"}
  /\ args.direction \in {"downstream", "upstream"}

SubmittedScope(scope) ==
  /\ Submissions # {}
  /\ \A i \in Submissions : http[i].json.scope = scope

ScopeKnown ==
  \/ args.target_scope # <<>>
  \/ args.object_type = "table" /\ args.direction = "downstream"
  \/ args.object_type = "column" /\ args.direction = "upstream"

SubmissionAllowed ==
  /\ args.consent
  /\ args.operation \in {"replace", "add", "remove"}
  /\ args.direction \in {"downstream", "upstream"}
  /\ ScopeKnown

\* C21: propagate_custom_field sends the submission POST only when consent
\* is true, the operation is replace, add or remove, the direction is
\* downstream or upstream and a scope is supplied or defaultable; when any
\* of these fails it returns a text and sends no request at all.
C21_SubmissionGate ==
  Propagating =>
    /\ Submissions # {} => SubmissionAllowed
    /\ ~SubmissionAllowed =>
         /\ result.kind = "returned"
         /\ result.text # <<>>
         /\ http = <<>>
         /\ pc = "done"

C21_Witness ==
  /\ Propagating
  /\ args.consent
  /\ args.operation \notin {"replace", "add", "remove"}
  /\ result = Returned(<<"Invalid operation. Must be one of: add, replace, remove.">>)
  /\ http = <<>>

\* the submission was sent and this is what came back
Submitted == Propagating /\ replies # <<>>

SubmissionUnusable ==
  Submitted /\ replies[1].kind \in {"request_error", "non_json", "no_task", "no_id"}

RetrySignal ==
  /\ args.tool = "search_data_products"
  /\ args.limit > 100
  /\ result = Raised("ModelRetry")

\* C23: every tool call ends by returning a text and never raises to the
\* agent loop, whatever the arguments and whatever the catalog answers
\* (error statuses and job-status bodies with missing or null fields
\* included); the one exception raised is the retry signal of
\* search_data_products for limit > 100.
C23_Claim ==
  pc = "done" => result.kind = "returned" \/ RetrySignal

(* ======================== the chat API's claims ======================== *)

\* C24: two conversations served at the same time never use the same
\* Dependencies bundle, nor therefore the one session object it holds.
C24_Claim ==
  \A c1, c2 \in Conversations :
    c1 # c2 /\ Serving(c1) /\ Serving(c2) => runs[c1].deps # runs[c2].deps

(* ================= the tools' claims about time and tokens ============= *)

\* C25: the polling phase of propagate_custom_field blocks the turn for at
\* most 60 time units, the 1-unit sleeps and the duration of the status
\* requests (each up to its 5-unit timeout) counted together.
C25_Claim ==
  Propagating => elapsed <= 60

\* the expiry of the token the process holds
TokenExpiry == al_auth.access_token_obj.token_expires_at

\* a request of a tool call went out through the session built at start-up,
\* whose token was unexpired when the session was built
SentWithFreshSession ==
  /\ deps # NoDeps
  /\ wire.TOKEN # None
  /\ AwareFuture(TokenExpiry, call.at)

\* C26: every request a tool call sends through the session of its
\* Dependencies carries an access token that is unexpired when the request
\* is sent, however long ago get_authenticated_session built the session.
C26_Claim ==
  SentWithFreshSession =>
    /\ wire.TOKEN = al_auth.access_token_obj.api_access_token
    /\ wire.at < TokenExpiry.t

(* ================== the tools' claims about one job ==================== *)

\* C27: one call of propagate_custom_field sends at most one submission
\* POST, whatever the job-status answers: nothing is resubmitted while
\* polling, after a poll error, a terminal failure or the timeout.
C27_OneSubmission ==
  Propagating =>
    /\ Cardinality(Submissions) <= 1
    /\ \A i \in Submissions : i = 1 /\ http[i].url = ActionUrl
    /\ \A i \in DOMAIN http : i > 1 => http[i] = HttpGet(job_url)

C27_Witness ==
  /\ Propagating
  /\ pc = "done"
  /\ attempt = PollAttempts
  /\ result.kind = "returned"
  /\ result.text[1] = "Propagation did not complete within timeout. Check job status at: "
  /\ Cardinality(Submissions) = 1
  /\ Cardinality(StatusRequests) = PollAttempts

PollFailed == Propagating /\ job_data.kind = "request_error"

\* C28: a job-status request that fails at poll k ends the call at once
\* with an "Error checking job status" text: it is the last request of the
\* call, the budget of 60 polls is not used up, and the result is none of
\* the success, failure or timeout messages.
C28_PollErrorEnds ==
  PollFailed =>
    /\ pc = "done"
    /\ result.kind = "returned"
    /\ result.text[1] = "Error checking job status: "
    /\ Cardinality(StatusRequests) = attempt
    /\ Len(http) = attempt + 1
    /\ result \notin {Returned(SuccessText(args, job_url)), Returned(FailedText(job_url)),
                      Returned(TimeoutText(job_url))}

C28_Witness ==
  /\ PollFailed
  /\ attempt = 2
  /\ pc = "done"
  /\ result.text[1] = "Error checking job status: "
  /\ Cardinality(StatusRequests) = 2

====
